---- MODULE Spec2Model ----
(***************************************************************************)
(* Live-meeting co-pilot (the App component of the live-session build,     *)
(* src/services/geminiService.ts lines 101-397): session lifecycle,        *)
(* capture-to-send path, inbound audio playback and transcript state.      *)
(*                                                                         *)
(* Every startMeeting invocation m acquires its own objects (capture       *)
(* stream, two audio contexts, one live session); the refs of the          *)
(* component point at the objects of some invocation (0 is null).          *)
(* An await is a position of the invocation: other handlers may run        *)
(* before its continuation does.  The isPausedRef effect (lines 137-139)   *)
(* runs with the commit of the update that changed isPaused, so every      *)
(* action that sets isPaused also sets isPausedRef.                        *)
(* connectLiveSession and the session object live in a module that is not  *)
(* part of the sources; their behaviour follows the written contract of    *)
(* the Streaming Session Client (Idle, Opening, Open, Closing, Closed).    *)
(*                                                                         *)
(* The interview app of the question-and-answer build (src/App.tsx with    *)
(* generateAnswerStream and generateSpeech of src/unnamed/part_000) has    *)
(* its own variables: the experience screen, the speech recognition and    *)
(* its handlers, the answer requests and the answer player.  SpecSpeech    *)
(* is the whole app, SpecInterview the app without the player, SpecPlayer  *)
(* the player behind one way to an answer.  The browser supports speech    *)
(* recognition.  decodeAudioData is a function of its bytes and channel    *)
(* count, applied to every small payload in SpecPcm.                       *)
(***************************************************************************)
EXTENDS Integers, Sequences, FiniteSets, TLC

\* ---- bounds of the model ----
MaxStarts == 2
MaxChunks == 2
MaxFrames == 3
MaxLog == 2
\* meetings per run in the specifications that follow one meeting's frames, audio and text
MaxSessions == 1
\* audio sources the answer player creates, and chunks of an answer
MaxPlays == 3
MaxAnswer == 3
\* listening sessions, and result events of one listening session
MaxListens == 2
MaxResults == 2
\* bytes of a payload handed to decodeAudioData
MaxBytes == 4

Meetings == 1..MaxStarts
Deltas == {"a"}
\* byte lengths of the inbound audio payloads: one even, one odd
ChunkBytes == {2, 3}

Marker == " [Interrupted] "
NoError == "null"
MissingContextMsg == "Provide your context first. The AI needs facts to build human stories."
CouldntStartMsg == "Couldn't start. Make sure you allow audio capture."
ConnectionDropMsg == "Connection drop. Check your internet."

\* the errors of generateSpeech (src/unnamed/part_000 lines 156-165); the
\* first is the text the API puts in the error of a rejected key
ApiKeyNotValidText == "API key not valid"
NoAudioMsg == "No audio data received from API."
InvalidKeyMsg == "The API key is invalid. Please check your configuration."
FailedAudioMsg == "Failed to generate audio. Please try again."

\* what a text-to-speech request can come back with
SpeechResponses == {"audio", "oddAudio", "noAudio", "keyInvalid", "apiFailure"}
\* the message of the RangeError of the typed-array constructor
RangeErrorMsg == "byte length of Int16Array should be a multiple of 2"

\* the messages of the interview app (src/App.tsx lines 88, 141, 189; part_000
\* line 131)
PasteExperienceMsg == "Please paste your experience before starting the interview."
ExperienceMissingMsg == "User experience is missing. Please restart and provide your experience."
RecognitionErrorPrefix == "Speech recognition error: "
FailedStoryMsg == "Failed to generate a story. Please try again later."

\* texts typed into the experience textarea, as sequences of characters
ExperienceTexts == {<<>>, <<" ">>, <<"e">>, <<" ", "e", " ">>}
\* error codes of the recognition's error event
RecognitionErrors == {"not-allowed", "no-speech"}
\* the result lists of the recognition's result events
ResultEvents ==
  { <<[isFinal |-> TRUE, transcript |-> <<"a">>]>>,
    <<[isFinal |-> FALSE, transcript |-> <<" ">>]>>,
    <<[isFinal |-> FALSE, transcript |-> <<"b">>], [isFinal |-> TRUE, transcript |-> <<"a">>]>> }
\* byte values of a payload, and the channel counts of a call
PcmBytes == {0, 1, 128, 255}
ChannelCounts == {1, 2}
\* how a request for an answer can fail
AnswerFailures == {"keyInvalid", "apiFailure"}

VARIABLES
  \* React state of the component (lines 117-126)
  experience, isMeetingActive, isConnecting, error, isMuted, isPaused,
  interviewerText, suggestedScript,
  \* refs (lines 129-134); 0 stands for null
  inputAudioCtxRef, outputAudioCtxRef, sessionRef, mediaStreamRef, isPausedRef,
  \* objects created by the startMeeting invocations
  nStarts, pc, stream, hasAudio, inCtx, outCtx, sess, cbq, closureMuted, proc,
  \* inbound audio chunks and outbound frames
  chunks, frameNo, sent,
  \* history of what happened, read by the properties only
  evLog, pausedFrames, cut, endedSinceStart, endRun, dropShown,
  \* the answer player of src/App.tsx (lines 56-64): state, refs, the audio
  \* sources it created, the position of handlePlayAudio and, for the
  \* properties, the response its last generateSpeech call received
  generatedAnswer, isGeneratingSpeech, isSpeaking, speechError, audioSourceRef,
  srcState, playPc, lastResp,
  \* the interview screen of src/App.tsx (lines 52-59, 70): state, the
  \* transcript ref, the recognition object's state, the answer requests made
  \* so far and, for the properties, the transcript of the latest result
  \* event of the listening session
  currentScreen, userExperience, finalTranscript, interimTranscript, isListening,
  isLoading, fullTranscriptRef, recState, nListens, nResults, gens, lastResult,
  \* the last call of decodeAudioData (src/App.tsx lines 32-49): its bytes,
  \* its channel count and what it returned or threw
  pcmData, pcmChannels, pcmBuffer

uiVars == <<experience, isMeetingActive, isConnecting, error, isMuted, isPaused,
            interviewerText, suggestedScript>>
refVars == <<inputAudioCtxRef, outputAudioCtxRef, sessionRef, mediaStreamRef, isPausedRef>>
objVars == <<nStarts, pc, stream, hasAudio, inCtx, outCtx, sess, cbq, closureMuted, proc>>
audioVars == <<chunks, frameNo, sent>>
histVars == <<evLog, pausedFrames, cut, endedSinceStart, endRun, dropShown>>
meetingVars == <<uiVars, refVars, objVars, audioVars, histVars>>
playerVars == <<generatedAnswer, isGeneratingSpeech, isSpeaking, speechError,
                audioSourceRef, srcState, playPc, lastResp>>
qaVars == <<currentScreen, userExperience, finalTranscript, interimTranscript, isListening,
            isLoading, fullTranscriptRef, recState, nListens, nResults, gens, lastResult>>
speechVars == <<playerVars, qaVars>>
pcmVars == <<pcmData, pcmChannels, pcmBuffer>>
vars == <<meetingVars, speechVars, pcmVars>>

Init ==
  /\ experience = ""
  /\ isMeetingActive = FALSE
  /\ isConnecting = FALSE
  /\ error = NoError
  /\ isMuted = TRUE
  /\ isPaused = FALSE
  /\ interviewerText = <<>>
  /\ suggestedScript = <<>>
  /\ inputAudioCtxRef = 0
  /\ outputAudioCtxRef = 0
  /\ sessionRef = 0
  /\ mediaStreamRef = 0
  /\ isPausedRef = FALSE
  /\ nStarts = 0
  /\ pc = [m \in Meetings |-> "idle"]
  /\ stream = [m \in Meetings |-> "none"]
  /\ hasAudio = [m \in Meetings |-> TRUE]
  /\ inCtx = [m \in Meetings |-> "none"]
  /\ outCtx = [m \in Meetings |-> "none"]
  /\ sess = [m \in Meetings |-> "idle"]
  /\ cbq = [m \in Meetings |-> <<>>]
  /\ closureMuted = [m \in Meetings |-> TRUE]
  /\ proc = [m \in Meetings |-> 0]
  /\ chunks = <<>>
  /\ frameNo = 0
  /\ sent = <<>>
  /\ evLog = <<>>
  /\ pausedFrames = {}
  /\ cut = {}
  /\ endedSinceStart = FALSE
  /\ endRun = 0
  /\ dropShown = FALSE
  /\ generatedAnswer = <<>>
  /\ isGeneratingSpeech = FALSE
  /\ isSpeaking = FALSE
  /\ speechError = NoError
  /\ audioSourceRef = 0
  /\ srcState = <<>>
  /\ playPc = "idle"
  /\ lastResp = "none"
  /\ currentScreen = "experience"
  /\ userExperience = <<>>
  /\ finalTranscript = <<>>
  /\ interimTranscript = <<>>
  /\ isListening = FALSE
  /\ isLoading = FALSE
  /\ fullTranscriptRef = <<>>
  /\ recState = "idle"
  /\ nListens = 0
  /\ nResults = 0
  /\ gens = <<>>
  /\ lastResult = <<>>
  /\ pcmData = <<>>
  /\ pcmChannels = 1
  /\ pcmBuffer = [thrown |-> "notCalled", channels |-> <<>>]

\* ---- the session object (contract of the Streaming Session Client) ----

\* session.close(): idempotent; an open session becomes closed and its
\* onClose callback is queued for delivery.
SessionClose(s, id) ==
  IF id # 0 /\ s[id] = "open" THEN [s EXCEPT ![id] = "closed"] ELSE s

CloseCallback(q, id) ==
  IF id # 0 /\ sess[id] = "open" THEN [q EXCEPT ![id] = Append(@, "close")] ELSE q

\* the session still has events to hand to its callbacks: it is open, or it
\* is closed and its onClose has not been delivered yet
Deliverable(m) == sess[m] = "open" \/ (sess[m] = "closed" /\ cbq[m] # <<>>)

\* ---- helpers of the component ----

\* a teardown that leaves the capture tracks running
StopTracks_Skipped(st, id) == st

\* MediaStreamTrack.stop() on every track of the stream held by the ref
StopTracks(st, id) ==
  IF id # 0 /\ st[id] = "live" THEN [st EXCEPT ![id] = "stopped"] ELSE st

\* AudioContext.close() on the context held by a ref
CloseCtx(cx, id) ==
  IF id # 0 /\ cx[id] = "open" THEN [cx EXCEPT ![id] = "closed"] ELSE cx

\* sources that play on a context stop when the context is closed
StopPlaying(cs, id) ==
  [i \in DOMAIN cs |->
     IF cs[i].st = "playing" /\ cs[i].ctx = id /\ id # 0 /\ outCtx[id] = "open"
     THEN [cs[i] EXCEPT !.st = "stopped"] ELSE cs[i]]

\* an update that puts the new text in front
AppendText_Prepend(prev, t) == <<t>> \o prev

\* prev => prev + text
AppendText(prev, t) == Append(prev, t)

\* a capture path that ignores the pause flag
SendSuppressed_Never == FALSE

\* the guard of the capture-to-send path (line 225)
SendSuppressed == isPausedRef

\* handlers that ignore the pause flag
TranscriptFrozen_Never == FALSE

\* the guard of the transcript handlers (lines 190, 195, 200, 205)
TranscriptFrozen == isPausedRef

Min2(a, b) == IF a < b THEN a ELSE b

\* endMeeting (lines 243-251), as the part of a step it contributes; q is
\* the callback queue the step starts from
EndMeeting(q) ==
  /\ sess' = SessionClose(sess, sessionRef)
  /\ cbq' = CloseCallback(q, sessionRef)
  /\ stream' = StopTracks(stream, mediaStreamRef)
  /\ inCtx' = CloseCtx(inCtx, inputAudioCtxRef)
  /\ outCtx' = CloseCtx(outCtx, outputAudioCtxRef)
  /\ chunks' = StopPlaying(chunks, outputAudioCtxRef)
  /\ isMeetingActive' = FALSE
  /\ isConnecting' = FALSE
  /\ isPaused' = FALSE
  /\ isPausedRef' = FALSE
  /\ endedSinceStart' = TRUE
  /\ endRun' = Min2(endRun + 1, 2)
  /\ UNCHANGED speechVars
  /\ UNCHANGED pcmVars
  /\ UNCHANGED <<experience, isMuted, interviewerText, suggestedScript>>
  /\ UNCHANGED <<inputAudioCtxRef, outputAudioCtxRef, sessionRef, mediaStreamRef>>
  /\ UNCHANGED <<nStarts, pc, hasAudio, closureMuted, proc>>
  /\ UNCHANGED <<frameNo, sent, evLog, pausedFrames, cut>>

\* ---- startMeeting (lines 147-241) ----

\* a start that never finds the context missing
ContextMissing_Never == FALSE

\* the guard of line 148: !experience
ContextMissing == experience = ""

\* the click on "Enter Stealth Mode": the button is rendered while the
\* meeting is not active and is disabled while isConnecting (lines 276-298)
StartMeeting ==
  /\ ~isMeetingActive
  /\ ~isConnecting
  /\ endRun' = 0
  /\ UNCHANGED speechVars
  /\ UNCHANGED pcmVars
  /\ dropShown' = FALSE
  /\ IF ContextMissing
     THEN /\ error' = MissingContextMsg
          /\ UNCHANGED <<experience, isMeetingActive, isConnecting, isMuted, isPaused,
                         interviewerText, suggestedScript>>
          /\ UNCHANGED <<refVars, objVars, audioVars>>
          /\ UNCHANGED <<evLog, pausedFrames, cut, endedSinceStart>>
     ELSE /\ nStarts < MaxStarts
          /\ nStarts' = nStarts + 1
          /\ isConnecting' = TRUE
          /\ error' = NoError
          /\ interviewerText' = <<>>
          /\ suggestedScript' = <<>>
          /\ isPaused' = FALSE
          /\ isPausedRef' = FALSE
          /\ closureMuted' = [closureMuted EXCEPT ![nStarts + 1] = isMuted]
          /\ pc' = [pc EXCEPT ![nStarts + 1] = "awaitDisplay"]
          /\ evLog' = <<>>
          /\ endedSinceStart' = FALSE
          /\ UNCHANGED <<experience, isMeetingActive, isMuted>>
          /\ UNCHANGED <<inputAudioCtxRef, outputAudioCtxRef, sessionRef, mediaStreamRef>>
          /\ UNCHANGED <<stream, hasAudio, inCtx, outCtx, sess, cbq, proc>>
          /\ UNCHANGED <<audioVars, pausedFrames, cut>>

\* lines 174-215: the stream is stored, both audio contexts are created and
\* connectLiveSession is called; the invocation then awaits the session
AcquireAndConnect(m, audio) ==
  /\ stream' = [stream EXCEPT ![m] = "live"]
  /\ hasAudio' = [hasAudio EXCEPT ![m] = audio]
  /\ mediaStreamRef' = m
  /\ inCtx' = [inCtx EXCEPT ![m] = "open"]
  /\ outCtx' = [outCtx EXCEPT ![m] = "open"]
  /\ inputAudioCtxRef' = m
  /\ outputAudioCtxRef' = m
  /\ sess' = [sess EXCEPT ![m] = "opening"]
  /\ pc' = [pc EXCEPT ![m] = "awaitConnect"]
  /\ endRun' = 0
  /\ UNCHANGED speechVars
  /\ UNCHANGED pcmVars
  /\ UNCHANGED dropShown
  /\ UNCHANGED <<uiVars, sessionRef, isPausedRef>>
  /\ UNCHANGED <<nStarts, cbq, closureMuted, proc>>
  /\ UNCHANGED <<audioVars, evLog, pausedFrames, cut, endedSinceStart>>

\* getDisplayMedia resolves (lines 162-169); the shared surface may come
\* without an audio track
DisplayMediaResolves(m) ==
  /\ pc[m] = "awaitDisplay"
  /\ \E audio \in BOOLEAN : AcquireAndConnect(m, audio)

\* getDisplayMedia rejects: the catch of line 170 requests the microphone
DisplayMediaRejects(m) ==
  /\ pc[m] = "awaitDisplay"
  /\ pc' = [pc EXCEPT ![m] = "awaitUser"]
  /\ endRun' = 0
  /\ UNCHANGED speechVars
  /\ UNCHANGED pcmVars
  /\ UNCHANGED dropShown
  /\ UNCHANGED <<uiVars, refVars>>
  /\ UNCHANGED <<nStarts, stream, hasAudio, inCtx, outCtx, sess, cbq, closureMuted, proc>>
  /\ UNCHANGED <<audioVars, evLog, pausedFrames, cut, endedSinceStart>>

\* getUserMedia({audio: true}) resolves (line 171)
UserMediaResolves(m) ==
  /\ pc[m] = "awaitUser"
  /\ AcquireAndConnect(m, TRUE)

\* a catch without the finally: isConnecting stays as it is
StartFails_StaysConnecting(m) ==
  /\ error' = CouldntStartMsg
  /\ pc' = [pc EXCEPT ![m] = "failed"]
  /\ endRun' = 0
  /\ UNCHANGED speechVars
  /\ UNCHANGED pcmVars
  /\ UNCHANGED dropShown
  /\ UNCHANGED <<experience, isMeetingActive, isConnecting, isMuted, isPaused,
                 interviewerText, suggestedScript>>
  /\ UNCHANGED <<inputAudioCtxRef, outputAudioCtxRef, mediaStreamRef, isPausedRef>>
  /\ UNCHANGED <<nStarts, stream, hasAudio, inCtx, outCtx, sess, cbq, closureMuted, proc>>
  /\ UNCHANGED <<audioVars, evLog, pausedFrames, cut, endedSinceStart>>

\* the catch and finally of startMeeting (lines 235-240)
StartFails(m) ==
  /\ error' = CouldntStartMsg
  /\ isConnecting' = FALSE
  /\ pc' = [pc EXCEPT ![m] = "failed"]
  /\ endRun' = 0
  /\ UNCHANGED speechVars
  /\ UNCHANGED pcmVars
  /\ UNCHANGED dropShown
  /\ UNCHANGED <<experience, isMeetingActive, isMuted, isPaused, interviewerText, suggestedScript>>
  /\ UNCHANGED <<inputAudioCtxRef, outputAudioCtxRef, mediaStreamRef, isPausedRef>>
  /\ UNCHANGED <<nStarts, stream, hasAudio, inCtx, outCtx, sess, cbq, closureMuted, proc>>
  /\ UNCHANGED <<audioVars, evLog, pausedFrames, cut, endedSinceStart>>

\* getUserMedia rejects as well: nothing was acquired by this invocation
UserMediaRejects(m) ==
  /\ pc[m] = "awaitUser"
  /\ StartFails(m)
  /\ UNCHANGED sessionRef

\* the awaited connect rejects (line 217)
ConnectRejected(m) ==
  /\ pc[m] = "awaitConnect"
  /\ sess[m] \in {"failed", "unauthorized"}
  /\ StartFails(m)
  /\ UNCHANGED sessionRef

\* createMediaStreamSource (line 220) throws InvalidStateError for a stream
\* without an audio track; on a context that was closed meanwhile the node
\* factories throw in some engines and not in others
WiringThrows(m) ==
  IF ~hasAudio[m] THEN {TRUE}
  ELSE IF inCtx[inputAudioCtxRef] = "closed" THEN {TRUE, FALSE}
  ELSE {FALSE}

\* the awaited connect resolves (lines 217-234)
ConnectResolved(m) ==
  /\ pc[m] = "awaitConnect"
  /\ sess[m] \in {"open", "closed"}
  /\ sessionRef' = m
  /\ \E threw \in WiringThrows(m) :
       IF threw
       THEN StartFails(m)
       ELSE /\ proc' = [proc EXCEPT ![m] = inputAudioCtxRef]
            /\ isMeetingActive' = TRUE
            /\ isConnecting' = FALSE
            /\ pc' = [pc EXCEPT ![m] = "done"]
            /\ endRun' = 0
            /\ UNCHANGED speechVars
            /\ UNCHANGED pcmVars
            /\ UNCHANGED dropShown
            /\ UNCHANGED <<experience, error, isMuted, isPaused, interviewerText, suggestedScript>>
            /\ UNCHANGED <<inputAudioCtxRef, outputAudioCtxRef, mediaStreamRef, isPausedRef>>
            /\ UNCHANGED <<nStarts, stream, hasAudio, inCtx, outCtx, sess, cbq, closureMuted>>
            /\ UNCHANGED <<audioVars, evLog, pausedFrames, cut, endedSinceStart>>

\* ---- the remote side of the session ----

RemoteStep(m, from, to, q) ==
  /\ sess[m] = from
  /\ sess' = [sess EXCEPT ![m] = to]
  /\ cbq' = [cbq EXCEPT ![m] = q]
  /\ endRun' = 0
  /\ UNCHANGED speechVars
  /\ UNCHANGED pcmVars
  /\ UNCHANGED dropShown
  /\ UNCHANGED <<uiVars, refVars>>
  /\ UNCHANGED <<nStarts, pc, stream, hasAudio, inCtx, outCtx, closureMuted, proc>>
  /\ UNCHANGED <<audioVars, evLog, pausedFrames, cut, endedSinceStart>>

\* Opening -> Open
RemoteAccept(m) == RemoteStep(m, "opening", "open", <<>>)
\* the open request is rejected: no session handle is returned
RemoteReject(m) == RemoteStep(m, "opening", "failed", <<>>)
\* the open request is rejected because the credential is invalid
CredentialRejected(m) == RemoteStep(m, "opening", "unauthorized", <<>>)
\* the channel fails while opening: the open fails, onError and onClose fire
OpeningFailure(m) == RemoteStep(m, "opening", "failed", <<"error", "close">>)
\* a transport failure moves the session to Closed and fires onError, then onClose
TransportFailure(m) == RemoteStep(m, "open", "closed", <<"error", "close">>)
\* the remote side closes the channel
RemoteClose(m) == RemoteStep(m, "open", "closed", <<"close">>)

\* ---- endMeeting and the lifecycle callbacks ----

\* the click on "End Session" (line 366), rendered while the meeting is active
EndMeetingClick ==
  /\ isMeetingActive
  /\ EndMeeting(cbq)
  /\ UNCHANGED <<error, dropShown>>

\* onError (lines 209-213)
OnError(m) ==
  /\ cbq[m] # <<>>
  /\ Head(cbq[m]) = "error"
  /\ error' = ConnectionDropMsg
  /\ dropShown' = (dropShown \/ isMeetingActive)
  /\ EndMeeting([cbq EXCEPT ![m] = Tail(@)])

\* onClose (line 214)
OnClose(m) ==
  /\ cbq[m] # <<>>
  /\ Head(cbq[m]) = "close"
  /\ EndMeeting([cbq EXCEPT ![m] = Tail(@)])
  /\ UNCHANGED <<error, dropShown>>

\* ---- capture-to-send path ----

\* a session that accepts input in every state
SendOk_Always(m) == TRUE

\* sendRealtimeInput is valid only while the session is open; in any other
\* state it fails with a session-closed error
SendOk(m) == sess[m] = "open"

\* a capture path that hands every frame over twice
SendFrame_Twice(log, e) == Append(Append(log, e), e)

\* one sendRealtimeInput call per onaudioprocess event (line 228)
SendFrame(log, e) == Append(log, e)

\* processor.onaudioprocess of invocation m (lines 223-229); the processor
\* fires while the context it was created on is running. ok records whether
\* the call went through or threw
AudioProcess(m) ==
  /\ proc[m] # 0
  /\ inCtx[proc[m]] = "open"
  /\ frameNo < MaxFrames
  /\ frameNo' = frameNo + 1
  /\ IF SendSuppressed
     THEN /\ pausedFrames' = IF isPausedRef THEN pausedFrames \cup {frameNo + 1} ELSE pausedFrames
          /\ UNCHANGED sent
     ELSE /\ sent' = SendFrame(sent, [f |-> frameNo + 1, m |-> m, ok |-> SendOk(m)])
          /\ pausedFrames' = IF isPausedRef THEN pausedFrames \cup {frameNo + 1} ELSE pausedFrames
  /\ endRun' = 0
  /\ UNCHANGED speechVars
  /\ UNCHANGED pcmVars
  /\ UNCHANGED dropShown
  /\ UNCHANGED <<uiVars, refVars, objVars, chunks, evLog, cut, endedSinceStart>>

\* ---- inbound audio ----

\* onAudioChunk up to its await (lines 180-183); isMuted is the value the
\* closure of the startMeeting invocation captured; len is the byte length of
\* the decoded base64 payload
OnAudioChunk(m) ==
  /\ Deliverable(m)
  /\ Len(chunks) < MaxChunks
  /\ \E len \in ChunkBytes :
       IF closureMuted[m] \/ outputAudioCtxRef = 0 \/ isPausedRef
       THEN chunks' = Append(chunks, [m |-> m, ctx |-> 0, st |-> "dropped", len |-> len,
                                      ap |-> isPausedRef, sp |-> FALSE, ae |-> FALSE])
       ELSE chunks' = Append(chunks, [m |-> m, ctx |-> outputAudioCtxRef, st |-> "decoding",
                                      len |-> len,
                                      ap |-> isPausedRef, sp |-> FALSE, ae |-> FALSE])
  /\ endRun' = 0
  /\ UNCHANGED speechVars
  /\ UNCHANGED pcmVars
  /\ UNCHANGED dropShown
  /\ UNCHANGED <<uiVars, refVars, objVars, frameNo, sent>>
  /\ UNCHANGED <<evLog, pausedFrames, cut, endedSinceStart>>

\* a decoder that accepts every byte length
DecodeThrows_Never(len) == FALSE

\* decodeAudioData (src/App.tsx lines 32-49): new Int16Array(data.buffer)
\* throws a RangeError unless the byte length is a multiple of 2
DecodeThrows(len) == len % 2 # 0

\* the continuation of onAudioChunk after decodeAudioData (lines 184-187):
\* when the decoder threw, the handler ends there; otherwise source.start()
\* with no start time, and a closed context renders nothing. sp and ae record
\* whether the meeting was paused, and whether the output context of the
\* chunk's own meeting had been closed by endMeeting, when playback began
DecodeDone(i) ==
  /\ i \in DOMAIN chunks
  /\ chunks[i].st = "decoding"
  /\ chunks' = [chunks EXCEPT ![i] =
                  IF DecodeThrows(chunks[i].len)
                  THEN [@ EXCEPT !.st = "failed"]
                  ELSE IF outCtx[chunks[i].ctx] = "open"
                  THEN [@ EXCEPT !.st = "playing", !.sp = isPausedRef,
                                 !.ae = (outCtx[chunks[i].m] = "closed")]
                  ELSE [@ EXCEPT !.st = "silent"]]
  /\ endRun' = 0
  /\ UNCHANGED speechVars
  /\ UNCHANGED pcmVars
  /\ UNCHANGED dropShown
  /\ UNCHANGED <<uiVars, refVars, objVars, frameNo, sent>>
  /\ UNCHANGED <<evLog, pausedFrames, cut, endedSinceStart>>

\* the output device reaches the end of the buffer
PlaybackEnded(i) ==
  /\ i \in DOMAIN chunks
  /\ chunks[i].st = "playing"
  /\ chunks' = [chunks EXCEPT ![i].st = "finished"]
  /\ endRun' = 0
  /\ UNCHANGED speechVars
  /\ UNCHANGED pcmVars
  /\ UNCHANGED dropShown
  /\ UNCHANGED <<uiVars, refVars, objVars, frameNo, sent>>
  /\ UNCHANGED <<evLog, pausedFrames, cut, endedSinceStart>>

\* ---- transcript handlers (lines 189-208) ----

Logged(k, t) == Append(evLog, [k |-> k, t |-> t, p |-> isPausedRef])

TextEvent(m) ==
  /\ Deliverable(m)
  /\ Len(evLog) < MaxLog
  /\ endRun' = 0
  /\ UNCHANGED speechVars
  /\ UNCHANGED pcmVars
  /\ UNCHANGED dropShown
  /\ UNCHANGED <<experience, isMeetingActive, isConnecting, error, isMuted, isPaused>>
  /\ UNCHANGED <<refVars, objVars, audioVars, pausedFrames, endedSinceStart>>

OnInterruption(m) ==
  /\ TextEvent(m)
  /\ evLog' = Logged("intr", Marker)
  /\ suggestedScript' = IF ~TranscriptFrozen THEN AppendText(suggestedScript, Marker)
                        ELSE suggestedScript
  /\ cut' = IF isPausedRef THEN cut
            ELSE cut \cup {i \in DOMAIN chunks :
                             chunks[i].m = m /\ chunks[i].st \in {"decoding", "playing"}}
  /\ UNCHANGED interviewerText

OnInputTranscription(m, text) ==
  /\ TextEvent(m)
  /\ evLog' = Logged("in", text)
  /\ interviewerText' = IF ~TranscriptFrozen THEN AppendText(interviewerText, text)
                        ELSE interviewerText
  /\ UNCHANGED <<suggestedScript, cut>>

OnOutputTranscription(m, text) ==
  /\ TextEvent(m)
  /\ evLog' = Logged("out", text)
  /\ suggestedScript' = IF ~TranscriptFrozen THEN AppendText(suggestedScript, text)
                        ELSE suggestedScript
  /\ UNCHANGED <<interviewerText, cut>>

OnTurnComplete(m) ==
  /\ TextEvent(m)
  /\ evLog' = Logged("turn", "")
  /\ interviewerText' = IF ~TranscriptFrozen THEN <<>> ELSE interviewerText
  /\ UNCHANGED <<suggestedScript, cut>>

\* ---- the remaining controls ----

\* the textarea (line 291), rendered while the meeting is not active
SetExperience(v) ==
  /\ ~isMeetingActive
  /\ v # experience
  /\ experience' = v
  /\ endRun' = 0
  /\ UNCHANGED speechVars
  /\ UNCHANGED pcmVars
  /\ UNCHANGED dropShown
  /\ UNCHANGED <<isMeetingActive, isConnecting, error, isMuted, isPaused,
                 interviewerText, suggestedScript>>
  /\ UNCHANGED <<refVars, objVars, audioVars, evLog, pausedFrames, cut, endedSinceStart>>

\* the mute toggle of the header (line 266)
ToggleMute ==
  /\ isMuted' = ~isMuted
  /\ endRun' = 0
  /\ UNCHANGED speechVars
  /\ UNCHANGED pcmVars
  /\ UNCHANGED dropShown
  /\ UNCHANGED <<experience, isMeetingActive, isConnecting, error, isPaused,
                 interviewerText, suggestedScript>>
  /\ UNCHANGED <<refVars, objVars, audioVars, evLog, pausedFrames, cut, endedSinceStart>>

\* a pause button that also empties the transcript of the interviewer
TogglePause_Clearing ==
  /\ isMeetingActive
  /\ isPaused' = ~isPaused
  /\ isPausedRef' = ~isPaused
  /\ interviewerText' = <<>>
  /\ endRun' = 0
  /\ UNCHANGED speechVars
  /\ UNCHANGED pcmVars
  /\ UNCHANGED dropShown
  /\ UNCHANGED <<experience, isMeetingActive, isConnecting, error, isMuted, suggestedScript>>
  /\ UNCHANGED <<inputAudioCtxRef, outputAudioCtxRef, sessionRef, mediaStreamRef>>
  /\ UNCHANGED <<objVars, audioVars, evLog, pausedFrames, cut, endedSinceStart>>

\* "Freeze Script" / "Resume Listening" (line 359) with the effect of lines 137-139
TogglePause ==
  /\ isMeetingActive
  /\ isPaused' = ~isPaused
  /\ isPausedRef' = ~isPaused
  /\ endRun' = 0
  /\ UNCHANGED speechVars
  /\ UNCHANGED pcmVars
  /\ UNCHANGED dropShown
  /\ UNCHANGED <<experience, isMeetingActive, isConnecting, error, isMuted,
                 interviewerText, suggestedScript>>
  /\ UNCHANGED <<inputAudioCtxRef, outputAudioCtxRef, sessionRef, mediaStreamRef>>
  /\ UNCHANGED <<objVars, audioVars, evLog, pausedFrames, cut, endedSinceStart>>

\* "Clear Script" (line 353)
ClearScript ==
  /\ isMeetingActive
  /\ Len(evLog) < MaxLog
  /\ suggestedScript' = <<>>
  /\ evLog' = Logged("clear", "")
  /\ endRun' = 0
  /\ UNCHANGED speechVars
  /\ UNCHANGED pcmVars
  /\ UNCHANGED dropShown
  /\ UNCHANGED <<experience, isMeetingActive, isConnecting, error, isMuted, isPaused,
                 interviewerText>>
  /\ UNCHANGED <<refVars, objVars, audioVars, pausedFrames, cut, endedSinceStart>>

\* the dismiss button of the error toast (line 383)
DismissError ==
  /\ error # NoError
  /\ error' = NoError
  /\ endRun' = 0
  /\ UNCHANGED speechVars
  /\ UNCHANGED pcmVars
  /\ dropShown' = FALSE
  /\ UNCHANGED <<experience, isMeetingActive, isConnecting, isMuted, isPaused,
                 interviewerText, suggestedScript>>
  /\ UNCHANGED <<refVars, objVars, audioVars, evLog, pausedFrames, cut, endedSinceStart>>

\* ---- the answer player (src/App.tsx, src/unnamed/part_000) ----

\* the error raised inside the try block of generateSpeech (lines 142-158)
\* for a response: the rejection of generateContent, or the throw of line 156
SpeechThrown(resp) ==
  IF resp = "noAudio" THEN NoAudioMsg
  ELSE IF resp = "keyInvalid" THEN ApiKeyNotValidText
  ELSE "fetch failed"

\* generateSpeech (part_000 lines 140-167): the catch of lines 160-166 also
\* receives the error thrown at line 156 and replaces every error that does
\* not mention the key
GenerateSpeech(resp) ==
  IF resp = "audio" THEN [ok |-> TRUE, msg |-> "", len |-> 2]
  ELSE IF resp = "oddAudio" THEN [ok |-> TRUE, msg |-> "", len |-> 3]
  ELSE [ok |-> FALSE,
        msg |-> IF SpeechThrown(resp) = ApiKeyNotValidText THEN InvalidKeyMsg
                ELSE FailedAudioMsg]

\* handleStopAudio (src/App.tsx lines 73-78): stop() on the source the ref
\* holds; its onended handler runs later
HandleStopAudio(ss, ref) ==
  IF ref # 0 /\ ss[ref] = "playing" THEN [ss EXCEPT ![ref] = "stopping"] ELSE ss

\* String.prototype.trim on a sequence of characters: the white space at
\* both ends is removed
RECURSIVE TrimStart(_)
TrimStart(t) ==
  IF t # <<>> /\ Head(t) = " " THEN TrimStart(Tail(t)) ELSE t

RECURSIVE TrimEnd(_)
TrimEnd(t) ==
  IF t # <<>> /\ t[Len(t)] = " " THEN TrimEnd(SubSeq(t, 1, Len(t) - 1)) ELSE t

Trim(t) == TrimEnd(TrimStart(t))

\* the textarea of the experience screen (src/App.tsx lines 266-271)
SetUserExperience(t) ==
  /\ currentScreen = "experience"
  /\ userExperience' = t
  /\ UNCHANGED <<currentScreen, finalTranscript, interimTranscript, isListening, isLoading,
                 fullTranscriptRef, recState, nListens, nResults, gens, lastResult>>
  /\ UNCHANGED playerVars
  /\ UNCHANGED meetingVars
  /\ UNCHANGED pcmVars

\* a start button that lets every text through
ExperienceGiven_Any(t) == TRUE

\* the test of handleStartInterview and handleGenerateAnswer (src/App.tsx
\* lines 188 and 87): the trimmed experience text is not empty
ExperienceGiven(t) == Trim(t) # <<>>

\* handleStartInterview (src/App.tsx lines 187-194)
HandleStartInterview ==
  /\ currentScreen = "experience"
  /\ IF ExperienceGiven(userExperience)
     THEN /\ speechError' = NoError
          /\ currentScreen' = "interview"
     ELSE /\ speechError' = PasteExperienceMsg
          /\ UNCHANGED currentScreen
  /\ UNCHANGED <<userExperience, finalTranscript, interimTranscript, isListening, isLoading,
                 fullTranscriptRef, recState, nListens, nResults, gens, lastResult>>
  /\ UNCHANGED <<generatedAnswer, isGeneratingSpeech, isSpeaking, audioSourceRef,
                 srcState, playPc, lastResp>>
  /\ UNCHANGED meetingVars
  /\ UNCHANGED pcmVars

\* a microphone button that ignores isLoading
ListenAllowed_Always == TRUE

\* the guard of toggleListening (src/App.tsx line 178); the browser supports
\* speech recognition
ListenAllowed == ~isLoading

\* toggleListening (src/App.tsx lines 177-185): stop() while isListening,
\* start() otherwise; start() on a recognition that is already started throws
\* and changes nothing. lastResult restarts with the listening session
ToggleListening ==
  /\ currentScreen = "interview"
  /\ ListenAllowed
  /\ IF isListening
     THEN /\ recState' = IF recState = "listening" THEN "stopping" ELSE recState
          /\ UNCHANGED <<nListens, nResults, lastResult>>
     ELSE /\ recState = "idle"
          /\ nListens < MaxListens
          /\ recState' = "starting"
          /\ nListens' = nListens + 1
          /\ nResults' = 0
          /\ lastResult' = <<>>
  /\ UNCHANGED <<currentScreen, userExperience, finalTranscript, interimTranscript,
                 isListening, isLoading, fullTranscriptRef, gens>>
  /\ UNCHANGED playerVars
  /\ UNCHANGED meetingVars
  /\ UNCHANGED pcmVars

\* recognition.onstart (src/App.tsx lines 125-133)
OnRecognitionStart ==
  /\ recState = "starting"
  /\ recState' = "listening"
  /\ isListening' = TRUE
  /\ speechError' = NoError
  /\ finalTranscript' = <<>>
  /\ interimTranscript' = <<>>
  /\ fullTranscriptRef' = <<>>
  /\ generatedAnswer' = <<>>
  /\ srcState' = HandleStopAudio(srcState, audioSourceRef)
  /\ UNCHANGED <<currentScreen, userExperience, isLoading, nListens, nResults, gens,
                 lastResult>>
  /\ UNCHANGED <<isGeneratingSpeech, isSpeaking, audioSourceRef, playPc, lastResp>>
  /\ UNCHANGED meetingVars
  /\ UNCHANGED pcmVars

\* the loop of recognition.onresult (src/App.tsx lines 146-156): the
\* transcripts of the final results, concatenated in the order of the list
RECURSIVE FinalPart(_)
FinalPart(results) ==
  IF results = <<>> THEN <<>>
  ELSE (IF Head(results).isFinal THEN Head(results).transcript ELSE <<>>)
         \o FinalPart(Tail(results))

\* the same loop: the transcripts of the results that are not final
RECURSIVE InterimPart(_)
InterimPart(results) ==
  IF results = <<>> THEN <<>>
  ELSE (IF Head(results).isFinal THEN <<>> ELSE Head(results).transcript)
         \o InterimPart(Tail(results))

\* recognition.onresult (src/App.tsx lines 145-161); results keep arriving
\* until the recognition has ended
OnRecognitionResult(results) ==
  /\ recState \in {"listening", "stopping"}
  /\ nResults < MaxResults
  /\ nResults' = nResults + 1
  /\ finalTranscript' = FinalPart(results)
  /\ interimTranscript' = InterimPart(results)
  /\ fullTranscriptRef' = FinalPart(results) \o InterimPart(results)
  /\ lastResult' = FinalPart(results) \o InterimPart(results)
  /\ UNCHANGED <<currentScreen, userExperience, isListening, isLoading, recState, nListens,
                 gens>>
  /\ UNCHANGED playerVars
  /\ UNCHANGED meetingVars
  /\ UNCHANGED pcmVars

\* recognition.onerror (src/App.tsx lines 140-143); the browser reports an
\* error before or after the start event (a refused microphone never
\* starts), and the end event follows
OnRecognitionError(code) ==
  /\ recState \in {"starting", "listening", "stopping"}
  /\ recState' = "failed"
  /\ speechError' = RecognitionErrorPrefix \o code
  /\ isListening' = FALSE
  /\ UNCHANGED <<currentScreen, userExperience, finalTranscript, interimTranscript,
                 isLoading, fullTranscriptRef, nListens, nResults, gens, lastResult>>
  /\ UNCHANGED <<generatedAnswer, isGeneratingSpeech, isSpeaking, audioSourceRef,
                 srcState, playPc, lastResp>>
  /\ UNCHANGED meetingVars
  /\ UNCHANGED pcmVars

\* recognition.onend (src/App.tsx lines 135-138) and handleGenerateAnswer up
\* to its await (lines 81-96), called with fullTranscriptRef.current
OnRecognitionEnd ==
  /\ recState \in {"listening", "stopping", "failed"}
  /\ recState' = "idle"
  /\ isListening' = FALSE
  /\ IF Trim(fullTranscriptRef) = <<>>
     THEN /\ isLoading' = FALSE
          /\ UNCHANGED <<speechError, generatedAnswer, srcState, gens>>
     ELSE IF ~ExperienceGiven(userExperience)
     THEN /\ speechError' = ExperienceMissingMsg
          /\ isLoading' = FALSE
          /\ UNCHANGED <<generatedAnswer, srcState, gens>>
     ELSE /\ speechError' = NoError
          /\ isLoading' = TRUE
          /\ generatedAnswer' = <<>>
          /\ srcState' = HandleStopAudio(srcState, audioSourceRef)
          /\ gens' = Append(gens, [q |-> Trim(fullTranscriptRef), st |-> "streaming",
                                   got |-> <<>>])
  /\ UNCHANGED <<currentScreen, userExperience, finalTranscript, interimTranscript,
                 fullTranscriptRef, nListens, nResults, lastResult>>
  /\ UNCHANGED <<isGeneratingSpeech, isSpeaking, audioSourceRef, playPc, lastResp>>
  /\ UNCHANGED meetingVars
  /\ UNCHANGED pcmVars

\* the number of chunks the requests have received so far
RECURSIVE ChunksReceived(_)
ChunksReceived(gs) ==
  IF gs = <<>> THEN 0 ELSE Len(Head(gs).got) + ChunksReceived(Tail(gs))

\* a chunk callback that puts the new text in front of the answer
Concat_InFront(prev, chunk) == <<chunk>> \o prev

\* the updater of the chunk callback (src/App.tsx line 101): prev + chunk
Concat(prev, chunk) == Append(prev, chunk)

\* one round of the for await loop of generateAnswerStream (part_000 lines
\* 116-120) with the chunk callback of handleGenerateAnswer (src/App.tsx lines
\* 100-102): a chunk without text is skipped. The text of chunk k of request
\* g is written <<g, k>>
AnswerChunk(g, hasText) ==
  /\ g \in DOMAIN gens
  /\ gens[g].st = "streaming"
  /\ ChunksReceived(gens) < MaxAnswer
  /\ gens' = [gens EXCEPT ![g].got = Append(@, hasText)]
  /\ generatedAnswer' = IF hasText
                        THEN Concat(generatedAnswer, <<g, Len(gens[g].got) + 1>>)
                        ELSE generatedAnswer
  /\ UNCHANGED <<currentScreen, userExperience, finalTranscript, interimTranscript,
                 isListening, isLoading, fullTranscriptRef, recState, nListens, nResults,
                 lastResult>>
  /\ UNCHANGED <<isGeneratingSpeech, isSpeaking, speechError, audioSourceRef,
                 srcState, playPc, lastResp>>
  /\ UNCHANGED meetingVars
  /\ UNCHANGED pcmVars

\* the stream ends and handleGenerateAnswer runs its finally (src/App.tsx
\* lines 105-107)
AnswerDone(g) ==
  /\ g \in DOMAIN gens
  /\ gens[g].st = "streaming"
  /\ gens' = [gens EXCEPT ![g].st = "done"]
  /\ isLoading' = FALSE
  /\ UNCHANGED <<currentScreen, userExperience, finalTranscript, interimTranscript,
                 isListening, fullTranscriptRef, recState, nListens, nResults, lastResult>>
  /\ UNCHANGED playerVars
  /\ UNCHANGED meetingVars
  /\ UNCHANGED pcmVars

\* the message generateAnswerStream throws for a failure of the request or of
\* the stream (part_000 lines 124-131)
AnswerError(failure) ==
  IF failure = "keyInvalid" THEN InvalidKeyMsg ELSE FailedStoryMsg

\* the request or its stream fails: the catch and the finally of
\* handleGenerateAnswer (src/App.tsx lines 103-107)
AnswerFails(g, failure) ==
  /\ g \in DOMAIN gens
  /\ gens[g].st = "streaming"
  /\ gens' = [gens EXCEPT ![g].st = "failed"]
  /\ speechError' = AnswerError(failure)
  /\ isLoading' = FALSE
  /\ UNCHANGED <<currentScreen, userExperience, finalTranscript, interimTranscript,
                 isListening, fullTranscriptRef, recState, nListens, nResults, lastResult>>
  /\ UNCHANGED <<generatedAnswer, isGeneratingSpeech, isSpeaking, audioSourceRef,
                 srcState, playPc, lastResp>>
  /\ UNCHANGED meetingVars
  /\ UNCHANGED pcmVars

\* handlePlayAudio up to its first await (src/App.tsx lines 203-215); the
\* button is rendered with an answer that is not loading (line 337) and
\* disabled while isGeneratingSpeech
PlayClick ==
  /\ ~isLoading
  /\ generatedAnswer # <<>>
  /\ ~isGeneratingSpeech
  /\ IF isSpeaking
     THEN /\ srcState' = HandleStopAudio(srcState, audioSourceRef)
          /\ UNCHANGED <<isGeneratingSpeech, speechError, playPc, lastResp>>
     ELSE /\ Len(srcState) < MaxPlays
          /\ isGeneratingSpeech' = TRUE
          /\ speechError' = NoError
          /\ playPc' = "awaitSpeech"
          /\ lastResp' = "none"
          /\ UNCHANGED srcState
  /\ UNCHANGED <<generatedAnswer, isSpeaking, audioSourceRef>>
  /\ UNCHANGED qaVars
  /\ UNCHANGED meetingVars
  /\ UNCHANGED pcmVars

\* generateSpeech settles and handlePlayAudio runs to its end (lines 215-241):
\* the payload is decoded and played, or the catch shows the error's message
SpeechSettles(resp) ==
  /\ playPc = "awaitSpeech"
  /\ playPc' = "idle"
  /\ lastResp' = resp
  /\ isGeneratingSpeech' = FALSE
  /\ IF GenerateSpeech(resp).ok /\ ~DecodeThrows(GenerateSpeech(resp).len)
     THEN /\ srcState' = Append(HandleStopAudio(srcState, audioSourceRef), "playing")
          /\ audioSourceRef' = Len(srcState) + 1
          /\ isSpeaking' = TRUE
          /\ UNCHANGED speechError
     ELSE /\ speechError' = IF GenerateSpeech(resp).ok THEN RangeErrorMsg
                            ELSE GenerateSpeech(resp).msg
          /\ UNCHANGED <<srcState, audioSourceRef, isSpeaking>>
  /\ UNCHANGED generatedAnswer
  /\ UNCHANGED qaVars
  /\ UNCHANGED meetingVars
  /\ UNCHANGED pcmVars

\* an ended handler that leaves isSpeaking alone
SourceEnded_KeepsSpeaking(i) ==
  /\ i \in DOMAIN srcState
  /\ srcState[i] \in {"playing", "stopping"}
  /\ srcState' = [srcState EXCEPT ![i] = "ended"]
  /\ audioSourceRef' = IF audioSourceRef = i THEN 0 ELSE audioSourceRef
  /\ UNCHANGED <<generatedAnswer, isGeneratingSpeech, isSpeaking, speechError, playPc,
                 lastResp>>
  /\ UNCHANGED qaVars
  /\ UNCHANGED meetingVars
  /\ UNCHANGED pcmVars

\* source.onended (lines 227-232): the buffer ran out or stop() took effect
SourceEnded(i) ==
  /\ i \in DOMAIN srcState
  /\ srcState[i] \in {"playing", "stopping"}
  /\ srcState' = [srcState EXCEPT ![i] = "ended"]
  /\ isSpeaking' = FALSE
  /\ audioSourceRef' = IF audioSourceRef = i THEN 0 ELSE audioSourceRef
  /\ UNCHANGED <<generatedAnswer, isGeneratingSpeech, speechError, playPc, lastResp>>
  /\ UNCHANGED qaVars
  /\ UNCHANGED meetingVars
  /\ UNCHANGED pcmVars

\* ---- decodeAudioData (src/App.tsx lines 32-49) ----

\* the sequences over S of length n, and of length up to n
RECURSIVE SeqsOfLen(_, _)
SeqsOfLen(S, n) ==
  IF n = 0 THEN {<<>>}
  ELSE {Append(q, x) : q \in SeqsOfLen(S, n - 1), x \in S}

Payloads == UNION {SeqsOfLen(PcmBytes, n) : n \in 0..MaxBytes}

\* element k (from 0) of new Int16Array(data.buffer): two bytes, low byte
\* first, read as a signed 16-bit number
Int16At(data, k) ==
  LET u == data[2 * k + 1] + 256 * data[2 * k + 2]
  IN IF u >= 32768 THEN u - 65536 ELSE u

\* ctx.createBuffer(numChannels, frameCount, sampleRate) (line 40) throws a
\* NotSupportedError for a length of 0 frames
CreateBufferThrows(frameCount) == frameCount = 0

\* decodeAudioData (lines 32-49). The typed-array constructor throws for an
\* odd byte length; createBuffer truncates frameCount to a whole number;
\* value i of channel c is sample i * numChannels + c divided by 32768,
\* written as a fraction
decodeAudioData(data, numChannels) ==
  IF DecodeThrows(Len(data))
  THEN [thrown |-> "RangeError", channels |-> <<>>]
  ELSE LET frameCount == (Len(data) \div 2) \div numChannels
       IN IF CreateBufferThrows(frameCount)
          THEN [thrown |-> "NotSupportedError", channels |-> <<>>]
          ELSE [thrown |-> "none",
                channels |->
                  [channel \in 1..numChannels |->
                     [i \in 1..frameCount |->
                        [num |-> Int16At(data, (i - 1) * numChannels + (channel - 1)),
                         den |-> 32768]]]]

\* a call of decodeAudioData
DecodeCall(data, numChannels) ==
  /\ pcmData' = data
  /\ pcmChannels' = numChannels
  /\ pcmBuffer' = decodeAudioData(data, numChannels)
  /\ UNCHANGED <<meetingVars, speechVars>>

\* ---- specifications ----

\* the session lifecycle: every control and callback that starts or ends a
\* meeting, with up to MaxStarts invocations of startMeeting
NextLifecycle ==
  \/ StartMeeting
  \/ \E m \in Meetings : DisplayMediaResolves(m)
  \/ \E m \in Meetings : DisplayMediaRejects(m)
  \/ \E m \in Meetings : UserMediaResolves(m)
  \/ \E m \in Meetings : UserMediaRejects(m)
  \/ \E m \in Meetings : ConnectResolved(m)
  \/ \E m \in Meetings : ConnectRejected(m)
  \/ \E m \in Meetings : RemoteAccept(m)
  \/ \E m \in Meetings : RemoteReject(m)
  \/ \E m \in Meetings : CredentialRejected(m)
  \/ \E m \in Meetings : OpeningFailure(m)
  \/ \E m \in Meetings : TransportFailure(m)
  \/ \E m \in Meetings : RemoteClose(m)
  \/ EndMeetingClick
  \/ \E m \in Meetings : OnError(m)
  \/ \E m \in Meetings : OnClose(m)
  \/ TogglePause
  \/ \E v \in {"", "ctx"} : SetExperience(v)
  \/ DismissError

SpecLifecycle == Init /\ [][NextLifecycle]_vars

\* one meeting's capture-to-send path
NextCapture ==
  \/ (StartMeeting /\ nStarts' <= MaxSessions)
  \/ \E m \in Meetings : DisplayMediaResolves(m)
  \/ \E m \in Meetings : DisplayMediaRejects(m)
  \/ \E m \in Meetings : UserMediaResolves(m)
  \/ \E m \in Meetings : UserMediaRejects(m)
  \/ \E m \in Meetings : ConnectResolved(m)
  \/ \E m \in Meetings : ConnectRejected(m)
  \/ \E m \in Meetings : RemoteAccept(m)
  \/ \E m \in Meetings : RemoteReject(m)
  \/ \E m \in Meetings : OpeningFailure(m)
  \/ \E m \in Meetings : TransportFailure(m)
  \/ \E m \in Meetings : RemoteClose(m)
  \/ EndMeetingClick
  \/ \E m \in Meetings : OnError(m)
  \/ \E m \in Meetings : OnClose(m)
  \/ TogglePause
  \/ SetExperience("ctx")
  \/ \E m \in Meetings : AudioProcess(m)

SpecCapture == Init /\ [][NextCapture]_vars

\* one meeting's inbound audio: chunks, decoding, playback, interruption
NextPlayback ==
  \/ (StartMeeting /\ nStarts' <= MaxSessions)
  \/ \E m \in Meetings : DisplayMediaResolves(m)
  \/ \E m \in Meetings : DisplayMediaRejects(m)
  \/ \E m \in Meetings : UserMediaResolves(m)
  \/ \E m \in Meetings : UserMediaRejects(m)
  \/ \E m \in Meetings : ConnectResolved(m)
  \/ \E m \in Meetings : ConnectRejected(m)
  \/ \E m \in Meetings : RemoteAccept(m)
  \/ \E m \in Meetings : RemoteReject(m)
  \/ \E m \in Meetings : OpeningFailure(m)
  \/ \E m \in Meetings : TransportFailure(m)
  \/ \E m \in Meetings : RemoteClose(m)
  \/ EndMeetingClick
  \/ \E m \in Meetings : OnError(m)
  \/ \E m \in Meetings : OnClose(m)
  \/ TogglePause
  \/ SetExperience("ctx")
  \/ ToggleMute
  \/ \E m \in Meetings : OnAudioChunk(m)
  \/ \E i \in 1..MaxChunks : DecodeDone(i)
  \/ \E i \in 1..MaxChunks : PlaybackEnded(i)
  \/ \E m \in Meetings : OnInterruption(m)

SpecPlayback == Init /\ [][NextPlayback]_vars

\* one meeting's transcript: the text events of the session and Clear Script
NextTranscript ==
  \/ (StartMeeting /\ nStarts' <= MaxSessions)
  \/ \E m \in Meetings : DisplayMediaResolves(m)
  \/ \E m \in Meetings : DisplayMediaRejects(m)
  \/ \E m \in Meetings : UserMediaResolves(m)
  \/ \E m \in Meetings : UserMediaRejects(m)
  \/ \E m \in Meetings : ConnectResolved(m)
  \/ \E m \in Meetings : ConnectRejected(m)
  \/ \E m \in Meetings : RemoteAccept(m)
  \/ \E m \in Meetings : RemoteReject(m)
  \/ \E m \in Meetings : OpeningFailure(m)
  \/ \E m \in Meetings : TransportFailure(m)
  \/ \E m \in Meetings : RemoteClose(m)
  \/ EndMeetingClick
  \/ \E m \in Meetings : OnError(m)
  \/ \E m \in Meetings : OnClose(m)
  \/ TogglePause
  \/ SetExperience("ctx")
  \/ \E m \in Meetings : OnInterruption(m)
  \/ \E m \in Meetings, text \in Deltas : OnInputTranscription(m, text)
  \/ \E m \in Meetings, text \in Deltas : OnOutputTranscription(m, text)
  \/ \E m \in Meetings : OnTurnComplete(m)
  \/ ClearScript

SpecTranscript == Init /\ [][NextTranscript]_vars

\* inbound audio across meetings: up to MaxStarts meetings, the chunks their
\* sessions deliver, decoding and playback
NextInbound ==
  \/ StartMeeting
  \/ \E m \in Meetings : DisplayMediaResolves(m)
  \/ \E m \in Meetings : ConnectResolved(m)
  \/ \E m \in Meetings : RemoteAccept(m)
  \/ EndMeetingClick
  \/ \E m \in Meetings : OnClose(m)
  \/ SetExperience("ctx")
  \/ ToggleMute
  \/ \E m \in Meetings : OnAudioChunk(m)
  \/ \E i \in 1..MaxChunks : DecodeDone(i)
  \/ \E i \in 1..MaxChunks : PlaybackEnded(i)

SpecInbound == Init /\ [][NextInbound]_vars

\* one meeting with every control of the page: the text events of its
\* session, the buttons of the header and of the Live Controls, the context
\* textarea and the error toast
NextControls ==
  \/ (StartMeeting /\ nStarts' <= MaxSessions)
  \/ \E m \in Meetings : DisplayMediaResolves(m)
  \/ \E m \in Meetings : ConnectResolved(m)
  \/ \E m \in Meetings : RemoteAccept(m)
  \/ EndMeetingClick
  \/ \E m \in Meetings : OnClose(m)
  \/ \E v \in {"", "ctx"} : SetExperience(v)
  \/ TogglePause
  \/ ToggleMute
  \/ ClearScript
  \/ DismissError
  \/ \E m \in Meetings, d \in Deltas : OnInputTranscription(m, d)
  \/ \E m \in Meetings, d \in Deltas : OnOutputTranscription(m, d)
  \/ \E m \in Meetings : OnTurnComplete(m)

SpecControls == Init /\ [][NextControls]_vars

\* the interview app of src/App.tsx: the experience screen, listening, the
\* answer request and its stream, and the answer player
NextSpeech ==
  \/ \E t \in ExperienceTexts : SetUserExperience(t)
  \/ HandleStartInterview
  \/ ToggleListening
  \/ OnRecognitionStart
  \/ \E results \in ResultEvents : OnRecognitionResult(results)
  \/ \E code \in RecognitionErrors : OnRecognitionError(code)
  \/ OnRecognitionEnd
  \/ \E g \in 1..MaxListens, hasText \in BOOLEAN : AnswerChunk(g, hasText)
  \/ \E g \in 1..MaxListens : AnswerDone(g)
  \/ \E g \in 1..MaxListens, failure \in AnswerFailures : AnswerFails(g, failure)
  \/ PlayClick
  \/ \E resp \in SpeechResponses : SpeechSettles(resp)
  \/ \E i \in 1..MaxPlays : SourceEnded(i)

SpecSpeech == Init /\ [][NextSpeech]_vars

\* the answer player with one way to an answer: one experience text, one
\* result event, an answer stream that succeeds, then the play button, the
\* text-to-speech request and the sources
NextPlayer ==
  \/ SetUserExperience(<<"e">>)
  \/ HandleStartInterview
  \/ ToggleListening
  \/ OnRecognitionStart
  \/ OnRecognitionResult(<<[isFinal |-> TRUE, transcript |-> <<"a">>]>>)
  \/ OnRecognitionEnd
  \/ \E g \in 1..MaxListens : AnswerChunk(g, TRUE)
  \/ \E g \in 1..MaxListens : AnswerDone(g)
  \/ PlayClick
  \/ \E resp \in SpeechResponses : SpeechSettles(resp)
  \/ \E i \in 1..MaxPlays : SourceEnded(i)

SpecPlayer == Init /\ [][NextPlayer]_vars

\* the interview screen without the player: the experience screen, listening,
\* the answer request and its stream
NextInterview ==
  \/ \E t \in ExperienceTexts : SetUserExperience(t)
  \/ HandleStartInterview
  \/ ToggleListening
  \/ OnRecognitionStart
  \/ \E results \in ResultEvents : OnRecognitionResult(results)
  \/ \E code \in RecognitionErrors : OnRecognitionError(code)
  \/ OnRecognitionEnd
  \/ \E g \in 1..MaxListens, hasText \in BOOLEAN : AnswerChunk(g, hasText)
  \/ \E g \in 1..MaxListens : AnswerDone(g)
  \/ \E g \in 1..MaxListens, failure \in AnswerFailures : AnswerFails(g, failure)

SpecInterview == Init /\ [][NextInterview]_vars

\* one meeting's inbound audio from arrival to the end of playback
NextDecode ==
  \/ (StartMeeting /\ nStarts' <= MaxSessions)
  \/ \E m \in Meetings : DisplayMediaResolves(m)
  \/ \E m \in Meetings : ConnectResolved(m)
  \/ \E m \in Meetings : RemoteAccept(m)
  \/ \E m \in Meetings : RemoteClose(m)
  \/ EndMeetingClick
  \/ \E m \in Meetings : OnClose(m)
  \/ SetExperience("ctx")
  \/ ToggleMute
  \/ \E m \in Meetings : OnAudioChunk(m)
  \/ \E i \in 1..MaxChunks : DecodeDone(i)
  \/ \E i \in 1..MaxChunks : PlaybackEnded(i)

SpecDecode == Init /\ [][NextDecode]_vars

\* the page mounts one of the two App components: the live meeting has not
\* been touched, or the interview app has not been touched
MeetingIdle ==
  /\ nStarts = 0 /\ experience = "" /\ error = NoError /\ isMuted /\ ~isPaused
InterviewIdle ==
  /\ currentScreen = "experience" /\ userExperience = <<>> /\ speechError = NoError

\* the awaited operations of startMeeting settle
MediaSettles ==
  \E m \in Meetings :
    \/ DisplayMediaResolves(m) \/ DisplayMediaRejects(m)
    \/ UserMediaResolves(m) \/ UserMediaRejects(m)
ConnectSettles ==
  \E m \in Meetings :
    \/ RemoteAccept(m) \/ RemoteReject(m) \/ CredentialRejected(m) \/ OpeningFailure(m)
    \/ ConnectResolved(m) \/ ConnectRejected(m)
\* the awaited operations of handleGenerateAnswer and handlePlayAudio settle
AnswerSettles ==
  \E g \in 1..MaxListens :
    AnswerDone(g) \/ \E failure \in AnswerFailures : AnswerFails(g, failure)
SpeechRequestSettles == \E resp \in SpeechResponses : SpeechSettles(resp)

\* the three calls with a busy flag, in the app that is mounted: up to
\* MaxSessions startMeeting invocations with everything that starts or ends a
\* meeting, and the interview app from the experience screen to the answer
\* and its playback
NextBusy ==
  \/ InterviewIdle /\ StartMeeting /\ nStarts' <= MaxSessions
  \/ InterviewIdle /\ MediaSettles
  \/ InterviewIdle /\ ConnectSettles
  \/ InterviewIdle /\ \E m \in Meetings : TransportFailure(m) \/ RemoteClose(m)
  \/ InterviewIdle /\ EndMeetingClick
  \/ InterviewIdle /\ \E m \in Meetings : OnError(m) \/ OnClose(m)
  \/ InterviewIdle /\ SetExperience("ctx")
  \/ MeetingIdle /\ SetUserExperience(<<"e">>)
  \/ MeetingIdle /\ HandleStartInterview
  \/ MeetingIdle /\ ToggleListening
  \/ MeetingIdle /\ OnRecognitionStart
  \/ MeetingIdle /\ OnRecognitionResult(<<[isFinal |-> TRUE, transcript |-> <<"a">>]>>)
  \/ MeetingIdle /\ OnRecognitionEnd
  \/ MeetingIdle /\ \E g \in 1..MaxListens : AnswerChunk(g, TRUE)
  \/ MeetingIdle /\ AnswerSettles
  \/ MeetingIdle /\ PlayClick
  \/ MeetingIdle /\ SpeechRequestSettles
  \/ MeetingIdle /\ \E i \in 1..MaxPlays : SourceEnded(i)

\* every awaited operation settles in the end: the media prompts are
\* answered, the connection is accepted or refused and its promise settles,
\* the answer stream and the text-to-speech request come back
FairBusy ==
  /\ WF_vars(InterviewIdle /\ MediaSettles)
  /\ WF_vars(InterviewIdle /\ ConnectSettles)
  /\ WF_vars(MeetingIdle /\ AnswerSettles)
  /\ WF_vars(MeetingIdle /\ SpeechRequestSettles)

SpecBusy == Init /\ [][NextBusy]_vars /\ FairBusy

\* decodeAudioData on every payload of up to MaxBytes bytes
NextPcm == \E data \in Payloads, numChannels \in ChannelCounts : DecodeCall(data, numChannels)

SpecPcm == Init /\ [][NextPcm]_vars

\* ---- properties ----

Awaiting == {"awaitDisplay", "awaitUser", "awaitConnect"}

\* what the refs hold has been released and the flags are down
Released ==
  /\ sessionRef # 0 => sess[sessionRef] # "open"
  /\ mediaStreamRef # 0 => stream[mediaStreamRef] # "live"
  /\ inputAudioCtxRef # 0 => inCtx[inputAudioCtxRef] # "open"
  /\ outputAudioCtxRef # 0 => outCtx[outputAudioCtxRef] # "open"
  /\ ~isMeetingActive
  /\ ~isConnecting
  /\ ~isPaused

\* C1: at no time are two sessions returned by connectLiveSession both
\* opened and not yet closed.
C1_AtMostOneLiveSession ==
  Cardinality({m \in Meetings : sess[m] = "open"}) <= 1

\* C2: once endMeeting has run and every startMeeting invocation in flight
\* has finished, the session is closed, the capture tracks are stopped, both
\* audio contexts are closed and isMeetingActive is false.
C2_EndMeetingCancelsStart ==
  (endedSinceStart /\ \A m \in Meetings : pc[m] \notin Awaiting) =>
     /\ ~isMeetingActive
     /\ \A m \in Meetings :
          /\ sess[m] \notin {"opening", "open"}
          /\ stream[m] # "live"
          /\ inCtx[m] # "open"
          /\ outCtx[m] # "open"

\* C3: when a startMeeting invocation has failed, everything it had acquired
\* is released: capture tracks stopped, audio contexts closed, session closed.
C3_FailedStartReleasesAll ==
  \A m \in Meetings :
    pc[m] = "failed" =>
      /\ stream[m] # "live"
      /\ inCtx[m] # "open"
      /\ outCtx[m] # "open"
      /\ sess[m] # "open"

\* a step in which the remote side ends a session
RemoteEnds == \E m \in Meetings : TransportFailure(m) \/ RemoteClose(m)

\* C4: no frame captured while paused is ever passed to sendRealtimeInput,
\* neither during the pause nor after the resume, and while the meeting stays
\* paused the component closes no session.
C4_PauseSuppressesSend ==
  /\ [](\A i \in DOMAIN sent : sent[i].f \notin pausedFrames)
  /\ [][isPausedRef => sent' = sent]_vars
  /\ [][(isPausedRef' /\ ~RemoteEnds) =>
          \A m \in Meetings : sess[m] = "open" => sess'[m] = "open"]_vars

\* a frame was captured and withheld during a pause, and a later frame was
\* sent after the resume
C4_Witness ==
  /\ pausedFrames # {}
  /\ ~isPausedRef
  /\ \E i \in DOMAIN sent : \A f \in pausedFrames : sent[i].f > f

Started == {"playing", "finished", "stopped"}

\* C6: absent an interruption, chunks start playing in arrival order and no
\* chunk starts while an earlier one is still playing.
C6_SequentialPlayback ==
  (\A k \in DOMAIN evLog : evLog[k].k # "intr") =>
     /\ Cardinality({i \in DOMAIN chunks : chunks[i].st = "playing"}) <= 1
     /\ \A i, j \in DOMAIN chunks :
          (i < j /\ chunks[j].st \in Started) => chunks[i].st # "decoding"

\* C7: after an interruption received while not paused, the chunk that was
\* playing is stopped and no chunk received before it plays.
C7_InterruptionStopsPlayback ==
  \A i \in cut : chunks[i].st \notin {"playing", "finished"}

\* the step delivers a transcription, interruption or turn-complete event
TextEventStep ==
  /\ Len(evLog') = Len(evLog) + 1
  /\ evLog'[Len(evLog')].k \in {"in", "out", "intr", "turn"}

\* C8: while paused, no session text event changes interviewerText or
\* suggestedScript, and the resume replays nothing.
C8_PausedFreezesTranscript ==
  /\ [][(isPausedRef /\ TextEventStep) => UNCHANGED <<interviewerText, suggestedScript>>]_vars
  /\ [][(isPausedRef /\ ~isPausedRef') => UNCHANGED <<interviewerText, suggestedScript>>]_vars

\* an event arrived during a pause and another one after the resume
C8_Witness ==
  \E i, j \in DOMAIN evLog :
    /\ i < j
    /\ evLog[i].k \in {"in", "out", "intr", "turn"} /\ evLog[i].p
    /\ evLog[j].k \in {"in", "out"} /\ ~evLog[j].p

RECURSIVE AllOut(_)
\* every output delta and interruption marker of the log, in arrival order
AllOut(log) ==
  IF log = <<>> THEN <<>>
  ELSE LET r == log[Len(log)]
           rest == AllOut(SubSeq(log, 1, Len(log) - 1))
       IN IF r.k \in {"out", "intr"} THEN Append(rest, r.t) ELSE rest

RECURSIVE InSinceTurn(_)
\* the input deltas of the log after its last turn-complete
InSinceTurn(log) ==
  IF log = <<>> THEN <<>>
  ELSE LET r == log[Len(log)]
           rest == InSinceTurn(SubSeq(log, 1, Len(log) - 1))
       IN IF r.k = "turn" THEN <<>>
          ELSE IF r.k = "in" THEN Append(rest, r.t) ELSE rest

RECURSIVE ScriptOf(_)
\* the output deltas and markers that arrived while not paused after the
\* last Clear Script
ScriptOf(log) ==
  IF log = <<>> THEN <<>>
  ELSE LET r == log[Len(log)]
           rest == ScriptOf(SubSeq(log, 1, Len(log) - 1))
       IN IF r.k = "clear" THEN <<>>
          ELSE IF r.k \in {"out", "intr"} /\ ~r.p THEN Append(rest, r.t) ELSE rest

RECURSIVE HeardOf(_)
\* the input deltas that arrived while not paused after the last
\* turn-complete that arrived while not paused
HeardOf(log) ==
  IF log = <<>> THEN <<>>
  ELSE LET r == log[Len(log)]
           rest == HeardOf(SubSeq(log, 1, Len(log) - 1))
       IN IF r.k = "turn" /\ ~r.p THEN <<>>
          ELSE IF r.k = "in" /\ ~r.p THEN Append(rest, r.t) ELSE rest

\* C9 as stated: in an active, unpaused meeting suggestedScript is the
\* concatenation of every output delta and marker received since the start,
\* and interviewerText that of the input deltas since the last turn-complete.
C9_TranscriptIsAllReceived ==
  (isMeetingActive /\ ~isPausedRef) =>
     /\ suggestedScript = AllOut(evLog)
     /\ interviewerText = InSinceTurn(evLog)

\* C9, amended: in an active, unpaused meeting suggestedScript is the
\* concatenation, in arrival order, of the output deltas and markers that
\* arrived while not paused since the start or the last Clear Script, and
\* interviewerText that of the input deltas that arrived while not paused
\* since the last turn-complete that arrived while not paused.
C9_TranscriptIsUnpausedSinceClear ==
  (isMeetingActive /\ ~isPausedRef) =>
     /\ suggestedScript = ScriptOf(evLog)
     /\ interviewerText = HeardOf(evLog)

\* an output delta arrived, then a turn-complete: the script still holds the
\* delta and interviewerText is empty
C9_Witness ==
  /\ isMeetingActive /\ ~isPausedRef
  /\ suggestedScript # <<>>
  /\ interviewerText = <<>>
  /\ Len(evLog) >= 2
  /\ evLog[Len(evLog)].k = "turn" /\ ~evLog[Len(evLog)].p
  /\ \E i \in DOMAIN evLog : evLog[i].k = "out" /\ ~evLog[i].p

OnErrorStep == \E m \in Meetings : OnError(m)

\* C11: when onError fires during an active meeting the connection-drop
\* message is set and what the refs hold is released with the flags down;
\* from then on, until the message is dismissed or startMeeting is invoked
\* again, no session is opened and the message stays.
C11_OnErrorEndsMeeting ==
  /\ [][(isMeetingActive /\ OnErrorStep) => (error' = ConnectionDropMsg /\ Released')]_vars
  /\ [][(dropShown /\ dropShown') =>
          \A m \in Meetings : sess'[m] = "opening" => sess[m] = "opening"]_vars
  /\ [](dropShown => error = ConnectionDropMsg)


\* C12: no chunk begins playback after endMeeting has closed the output
\* context of the meeting whose session delivered it; this covers a chunk
\* that was being decoded when endMeeting ran and a chunk the closing
\* session delivers late.
C12_NoPlaybackAfterEnd ==
  \A i \in DOMAIN chunks : ~chunks[i].ae


\* the step passes a frame to sendRealtimeInput
SendStep == Len(sent') > Len(sent)

C14_FramesSentOnceInOrder ==
  /\ \A i, j \in DOMAIN sent : i < j => sent[i].f < sent[j].f
  /\ \A f \in 1..frameNo : f \notin pausedFrames => \E i \in DOMAIN sent : sent[i].f = f

\* two frames were captured and sent in an active, unpaused meeting
C14_Witness ==
  /\ isMeetingActive /\ ~isPausedRef
  /\ Len(sent) >= 2
  /\ sent[1].ok /\ sent[2].ok


\* C15: startMeeting with an empty context sets the missing-context message
\* and changes nothing else: no capture is requested, no audio context and no
\* session is created, and isConnecting, isMeetingActive, isPaused and both
\* transcripts keep their values.
C15_EmptyContextRefused ==
  [][(StartMeeting /\ experience = "") =>
       /\ error' = MissingContextMsg
       /\ UNCHANGED <<experience, isMeetingActive, isConnecting, isMuted, isPaused,
                      interviewerText, suggestedScript>>
       /\ UNCHANGED <<refVars, objVars, audioVars>>]_vars

\* after a meeting that left text in a transcript the context was emptied
\* and the start was refused
C15_Witness ==
  /\ error = MissingContextMsg
  /\ experience = ""
  /\ nStarts >= 1
  /\ suggestedScript # <<>>

\* C16: an invocation asks for the microphone exactly when its display
\* capture request was refused; when the microphone is refused too the
\* invocation has created no audio context and no session, the start error is
\* shown, the meeting is not active, isConnecting is false, and the invocation
\* stays failed: startMeeting runs again only with a click.
C16_MicrophoneFallback ==
  /\ [][\A m \in Meetings :
          /\ (pc[m] = "awaitDisplay" /\ pc'[m] # "awaitDisplay") =>
                (pc'[m] = "awaitUser" <=> stream'[m] = "none")
          /\ (pc[m] # "awaitUser" /\ pc'[m] = "awaitUser") => pc[m] = "awaitDisplay"
          /\ (pc[m] = "awaitUser" /\ pc'[m] = "failed") =>
                /\ stream'[m] = "none" /\ inCtx'[m] = "none" /\ outCtx'[m] = "none"
                /\ sess'[m] = "idle"
                /\ error' = CouldntStartMsg
                /\ ~isMeetingActive'
                /\ ~isConnecting'
          /\ pc[m] = "failed" => pc'[m] = "failed"]_vars
  /\ [][nStarts' # nStarts => StartMeeting]_vars

\* both capture requests of an invocation were refused
C16_Witness ==
  \E m \in Meetings :
    /\ pc[m] = "failed"
    /\ stream[m] = "none"
    /\ sess[m] = "idle"
    /\ error = CouldntStartMsg

\* what is shown when a start fails for another cause than the credential:
\* capture refused, connect rejected, transport failure
OtherCauseMsgs == {CouldntStartMsg, ConnectionDropMsg}

\* C17: the message shown when the live session cannot be opened because the
\* credential is invalid differs from the messages shown for every other
\* failure cause.
C17_CredentialErrorDistinct ==
  [][\A m \in Meetings :
       (pc[m] = "awaitConnect" /\ sess[m] = "unauthorized" /\ pc'[m] = "failed") =>
          error' \notin OtherCauseMsgs]_vars


\* C18: when the text-to-speech response carries no audio payload the error
\* shown names the missing audio data and differs from what is shown for a
\* rejected key or a failed request; no source is created, isSpeaking is
\* false and isGeneratingSpeech is reset.
C18_NoAudioErrorIdentified ==
  [][(playPc = "awaitSpeech" /\ lastResp' = "noAudio") =>
       /\ speechError' = NoAudioMsg
       /\ speechError' \notin {GenerateSpeech(r).msg : r \in {"keyInvalid", "apiFailure"}}
       /\ srcState' = srcState
       /\ ~isSpeaking'
       /\ ~isGeneratingSpeech']_vars

\* C19: a chunk with an odd byte length never plays; when its decoding fails
\* the meeting, its session and the output context stay as they are; and a
\* chunk with an even byte length whose decoding ends on an open context
\* plays, whatever happened to the chunks before it.
C19_OddChunkDropped ==
  /\ [](\A i \in DOMAIN chunks :
          chunks[i].len % 2 # 0 => chunks[i].st \in {"dropped", "decoding", "failed"})
  /\ [][\A i \in DOMAIN chunks :
          (chunks[i].st = "decoding" /\ chunks'[i].st # "decoding") =>
             IF chunks[i].len % 2 # 0
             THEN /\ chunks'[i].st = "failed"
                  /\ UNCHANGED <<uiVars, refVars, objVars>>
             ELSE outCtx[chunks[i].ctx] = "open" => chunks'[i].st = "playing"]_vars

\* an odd chunk was rejected; the meeting is active with its session open
\* and a chunk that arrived afterwards plays
C19_Witness ==
  \E i, j \in DOMAIN chunks :
    /\ i < j
    /\ chunks[i].len % 2 # 0 /\ chunks[i].st = "failed"
    /\ chunks[j].st = "playing"
    /\ isMeetingActive
    /\ sessionRef # 0 /\ sess[sessionRef] = "open"

\* the step is the click on Clear Script
ClearStep ==
  /\ Len(evLog') = Len(evLog) + 1
  /\ evLog'[Len(evLog')].k = "clear"

\* C20 as stated: while the meeting is active, a step that is not a session
\* text event leaves interviewerText and suggestedScript unchanged.
C20_OnlyEventsChangeTranscript ==
  [][(isMeetingActive /\ ~TextEventStep) =>
       UNCHANGED <<interviewerText, suggestedScript>>]_vars

\* C20, amended: while the meeting is active, a step that is neither a
\* session text event nor the click on Clear Script leaves both transcripts
\* unchanged, and Clear Script empties suggestedScript and leaves
\* interviewerText unchanged.
C20_OnlyEventsAndClearChangeTranscript ==
  /\ [][(isMeetingActive /\ ~TextEventStep /\ ~ClearStep) =>
          UNCHANGED <<interviewerText, suggestedScript>>]_vars
  /\ [][(isMeetingActive /\ ClearStep) =>
          (suggestedScript' = <<>> /\ UNCHANGED interviewerText)]_vars

\* the meeting was paused, muted or unmuted and then stopped with text in
\* both transcripts, and the text is still there
C20_Witness ==
  /\ endedSinceStart
  /\ ~isMeetingActive
  /\ ~isMuted
  /\ interviewerText # <<>>
  /\ suggestedScript # <<>>


\* C23: a late onClose or onError of a session whose meeting endMeeting has
\* already torn down leaves every meeting started afterwards alone: the session and the capture
\* stream of a later invocation, the active and paused flags, the error and
\* both transcripts keep their values.
C23_LateCallbacksAreIgnored ==
  [][\A m, k \in Meetings :
       (m < k /\ pc[k] # "idle" /\ sess[m] = "closed" /\ outCtx[m] = "closed"
          /\ (OnClose(m) \/ OnError(m))) =>
          /\ sess'[k] = sess[k]
          /\ stream'[k] = stream[k]
          /\ UNCHANGED <<isMeetingActive, isPaused, error, interviewerText, suggestedScript>>]_vars


\* C24: an inbound audio chunk that arrives in the active meeting is handed to the decoder for playback exactly when, at its arrival, the mute
\* toggle is off and the meeting is not paused; otherwise it is dropped.
C24_ChunkPlayedIffUnmutedAtArrival ==
  [][\A m \in Meetings :
       (OnAudioChunk(m) /\ isMeetingActive /\ outputAudioCtxRef # 0) =>
          (chunks'[Len(chunks')].st = "decoding" <=> (~isMuted /\ ~isPausedRef))]_vars

\* C21: the error the interview app shows is always one of the application's
\* own fixed messages (or none), never text that carries the code or the
\* message of a browser event or of an exception.
C21_OnlyFixedMessagesShown ==
  speechError \in {NoError, PasteExperienceMsg, ExperienceMissingMsg, InvalidKeyMsg,
                   FailedStoryMsg, FailedAudioMsg, NoAudioMsg}

\* C25: when the recognition ends, the question the answer generation works
\* with (the trimmed transcript it is handed) is the final plus interim text of
\* the latest result event of the listening session that just ended (nothing
\* when that session had no result event), and a request that is started asks
\* that question.
C25_EndUsesLatestTranscript ==
  [][OnRecognitionEnd =>
       /\ Trim(fullTranscriptRef) = Trim(lastResult)
       /\ gens' # gens => gens'[Len(gens')].q = Trim(lastResult)]_vars

\* the answer requests whose stream has not settled
InFlight == {g \in DOMAIN gens : gens[g].st = "streaming"}

\* C26: at most one answer request is in flight at any time, and isLoading is
\* true while it is; a listening session is started only while isLoading is
\* false, a request is started only by the end of the recognition, and the
\* chunks in generatedAnswer all belong to one request.
C26_OneGenerationInFlight ==
  /\ [](/\ Cardinality(InFlight) <= 1
        /\ InFlight # {} => isLoading
        /\ \A i, j \in DOMAIN generatedAnswer :
             generatedAnswer[i][1] = generatedAnswer[j][1])
  /\ [][/\ recState' = "starting" => (recState = "starting" \/ ~isLoading)
        /\ Len(gens') > Len(gens) => OnRecognitionEnd]_vars

\* the second request streams its answer after the first one has settled
C26_Witness ==
  /\ Len(gens) = 2
  /\ gens[1].st # "streaming" /\ gens[1].got # <<>>
  /\ gens[2].st = "streaming"
  /\ generatedAnswer # <<>>
  /\ isLoading

\* the texts of the first k chunks of request g that carry text, in the
\* order of their arrival
RECURSIVE TextsUpTo(_, _, _)
TextsUpTo(g, got, k) ==
  IF k = 0 THEN <<>>
  ELSE TextsUpTo(g, got, k - 1) \o (IF got[k] THEN << <<g, k>> >> ELSE <<>>)

\* C27: when a request settles, generatedAnswer is the concatenation, in the
\* order of arrival, of the chunks of that request that carry text and of
\* nothing else; a request that succeeds leaves the error alone and resets
\* isLoading, a request that fails also shows one of the two messages of
\* generateAnswerStream.
C27_AnswerIsThisRequestsChunks ==
  [][\A g \in DOMAIN gens :
       (gens[g].st = "streaming" /\ gens'[g].st # "streaming") =>
          /\ generatedAnswer' = TextsUpTo(g, gens[g].got, Len(gens[g].got))
          /\ ~isLoading'
          /\ IF gens'[g].st = "done"
             THEN speechError' = speechError
             ELSE speechError' \in {InvalidKeyMsg, FailedStoryMsg}]_vars

\* a first request failed midway and a second one completed with two chunks
C27_Witness ==
  /\ Len(gens) = 2
  /\ gens[1].st = "failed" /\ gens[1].got # <<>>
  /\ gens[2].st = "done"
  /\ generatedAnswer = << <<2, 1>>, <<2, 2>> >>

\* the audio sources in the given states
SourcesIn(states) == {i \in DOMAIN srcState : srcState[i] \in states}

\* C28: at most one audio source is playing, and isSpeaking is true exactly
\* while audioSourceRef refers to a source that is playing, that is, one that
\* has neither ended nor been stopped.
C28_SpeakingIffSourcePlaying ==
  /\ Cardinality(SourcesIn({"playing"})) <= 1
  /\ isSpeaking <=> (audioSourceRef # 0 /\ srcState[audioSourceRef] = "playing")

\* C28, as the code has it: at most one audio source has not delivered its
\* ended event, and isSpeaking is true exactly while audioSourceRef refers to
\* such a source, whether it is playing or has been stopped and its ended
\* event is still to come.
C28_SpeakingUntilEndedEvent ==
  /\ Cardinality(SourcesIn({"playing", "stopping"})) <= 1
  /\ audioSourceRef # 0 => audioSourceRef \in SourcesIn({"playing", "stopping"})
  /\ isSpeaking <=> audioSourceRef # 0

\* a second source has been stopped and its ended event has not arrived
C28_Witness ==
  /\ Len(srcState) = 2
  /\ srcState[1] = "ended"
  /\ srcState[2] = "stopping"
  /\ audioSourceRef = 2
  /\ isSpeaking

\* C30: the screen changes only from the experience screen to the interview
\* screen, in handleStartInterview and with an experience text that is not
\* blank; on the interview screen the experience text is never blank, and
\* the message of the missing experience is never shown.
C30_InterviewHasExperience ==
  /\ [](currentScreen = "interview" => Trim(userExperience) # <<>>)
  /\ [](speechError # ExperienceMissingMsg)
  /\ [][currentScreen' # currentScreen =>
          /\ currentScreen = "experience" /\ currentScreen' = "interview"
          /\ HandleStartInterview
          /\ Trim(userExperience) # <<>>
          /\ userExperience' = userExperience]_vars

\* on the interview screen, entered with a padded experience text, a question
\* has been answered
C30_Witness ==
  /\ currentScreen = "interview"
  /\ userExperience = <<" ", "e", " ">>
  /\ gens # <<>>
  /\ gens[1].st = "done"

\* C29: every busy flag that is raised is lowered again once the awaited
\* operations have settled, and each call ends with its flag down: a
\* startMeeting invocation that leaves its awaits, or returns at once, leaves
\* isConnecting false; handleGenerateAnswer leaves isLoading false when it
\* returns at once and when its stream settles; handlePlayAudio leaves
\* isGeneratingSpeech false when it returns at once and when its request
\* settles, whether the operation succeeded or failed.
C29_BusyFlagsReset ==
  /\ isConnecting ~> ~isConnecting
  /\ isLoading ~> ~isLoading
  /\ isGeneratingSpeech ~> ~isGeneratingSpeech
  /\ [][/\ \A m \in Meetings :
             (pc[m] \in Awaiting /\ pc'[m] \notin Awaiting) => ~isConnecting'
        /\ (StartMeeting /\ nStarts' = nStarts) => ~isConnecting'
        /\ \A g \in DOMAIN gens :
             (gens[g].st = "streaming" /\ gens'[g].st # "streaming") => ~isLoading'
        /\ (OnRecognitionEnd /\ gens' = gens) => ~isLoading'
        /\ (playPc = "awaitSpeech" /\ playPc' = "idle") => ~isGeneratingSpeech'
        /\ (PlayClick /\ playPc' = "idle") => ~isGeneratingSpeech']_vars

\* an answer request failed after a chunk, and the text-to-speech request for
\* what it left failed as well; both flags are down
C29_Witness ==
  /\ Len(gens) = 1 /\ gens[1].st = "failed" /\ generatedAnswer # <<>>
  /\ playPc = "idle" /\ lastResp = "apiFailure"
  /\ ~isLoading /\ ~isGeneratingSpeech

\* the 16-bit samples of a payload: the little-endian two's complement value
\* of each pair of bytes
SamplesOf(data) ==
  [k \in 1..(Len(data) \div 2) |->
     LET lo == data[2 * k - 1]
         hi == data[2 * k]
     IN IF hi >= 128 THEN (hi - 256) * 256 + lo ELSE hi * 256 + lo]

\* C22: for a payload of whole 16-bit samples, a whole number of them per
\* channel, decodeAudioData returns numChannels channels of (sample count /
\* numChannels) values each, value i of channel c being sample
\* i * numChannels + c divided by 32768; an empty payload gives empty channels.
C22_DecodeDeinterleaves ==
  (/\ pcmBuffer.thrown # "notCalled"
   /\ Len(pcmData) % 2 = 0
   /\ Len(SamplesOf(pcmData)) % pcmChannels = 0) =>
     /\ pcmBuffer.thrown = "none"
     /\ DOMAIN pcmBuffer.channels = 1..pcmChannels
     /\ \A c \in 1..pcmChannels :
          /\ Len(pcmBuffer.channels[c]) = Len(SamplesOf(pcmData)) \div pcmChannels
          /\ \A i \in 1..Len(pcmBuffer.channels[c]) :
               pcmBuffer.channels[c][i] =
                 [num |-> SamplesOf(pcmData)[(i - 1) * pcmChannels + c], den |-> 32768]

TypeOK ==
  /\ isPaused = isPausedRef
  /\ nStarts \in 0..MaxStarts
  /\ sessionRef \in 0..MaxStarts
  /\ Len(chunks) <= MaxChunks
  /\ Len(evLog) <= MaxLog
  /\ currentScreen \in {"experience", "interview"}
  /\ recState \in {"idle", "starting", "listening", "stopping", "failed"}
  /\ nListens \in 0..MaxListens
  /\ nResults \in 0..MaxResults
  /\ Len(gens) <= MaxListens
  /\ Len(pcmData) <= MaxBytes

====
